---- MODULE Spec2Model ----
(***************************************************************************)
(* BOLT12 offer decoder GUI (src/src/gui.rs).                              *)
(*                                                                         *)
(* Text is a sequence of one-character strings.  Two specifications:       *)
(*   FnSpec  one call of from_bech32_str on an input drawn from a bounded  *)
(*           set of strings;                                               *)
(*   Spec    the application: construction, then redraw cycles (update),   *)
(*           each of which decodes, lets the text field edit the input,    *)
(*           and renders.                                                  *)
(* The bech32 primitives (CheckedHrpstring, Hrp) and the offer TLV parser  *)
(* belong to the lightning / bech32 crates; they are modelled at the call  *)
(* sites in gui.rs by the behaviour of those calls.                        *)
(***************************************************************************)
EXTENDS Integers, Sequences, FiniteSets, TLC

VARIABLES
    input_text,      \* Bolt12OfferDecoderApp.input_text
    offer,           \* Bolt12OfferDecoderApp.offer : Option<Offer>
    error_message,   \* Bolt12OfferDecoderApp.error_message : Option<String>
    pc,              \* position inside update()
    frame,           \* what the current redraw has put on screen, and from which text
    s,               \* from_bech32_str: the argument
    fpc,             \* from_bech32_str: position inside the call
    encoded,         \* from_bech32_str: the local `encoded`
    ret              \* from_bech32_str: the returned Result

vars == <<input_text, offer, error_message, pc, frame, s, fpc, encoded, ret>>
appVars == <<input_text, offer, error_message, pc, frame>>
fnVars == <<s, fpc, encoded, ret>>

-----------------------------------------------------------------------------
(* Bounds *)

\* longest enumerated argument of from_bech32_str
MaxLen == 5
\* longest text the user types key by key into the text field
MaxTyped == 3

-----------------------------------------------------------------------------
(* Option and Result *)

None == [some |-> FALSE]
Some(v) == [some |-> TRUE, val |-> v]
Ok(v) == [ok |-> TRUE, val |-> v]
Err(e) == [ok |-> FALSE, err |-> e]

-----------------------------------------------------------------------------
(* Characters *)

LowerLetters == <<"a", "b", "c", "d", "e", "f", "g", "h", "i", "j", "k", "l", "m",
                  "n", "o", "p", "q", "r", "s", "t", "u", "v", "w", "x", "y", "z">>
UpperLetters == <<"A", "B", "C", "D", "E", "F", "G", "H", "I", "J", "K", "L", "M",
                  "N", "O", "P", "Q", "R", "S", "T", "U", "V", "W", "X", "Y", "Z">>

Range(f) == {f[i] : i \in DOMAIN f}
UpperSet == Range(UpperLetters)
LowerSet == Range(LowerLetters)
ToLower == [c \in UpperSet |-> LowerLetters[CHOOSE i \in DOMAIN UpperLetters : UpperLetters[i] = c]]

\* char::is_whitespace, on the characters of the model
is_whitespace(c) == c \in {" ", "\t", "\n"}
is_ascii_uppercase(c) == c \in UpperSet
is_ascii_lowercase(c) == c \in LowerSet
to_ascii_lowercase(c) == IF is_ascii_uppercase(c) THEN ToLower[c] ELSE c

\* the bech32 data alphabet; the value of a character is its index minus 1
CHARSET == <<"q", "p", "z", "r", "y", "9", "x", "8", "g", "f", "2", "t", "v", "d", "w", "0",
             "s", "3", "j", "n", "5", "4", "k", "h", "c", "e", "6", "m", "u", "a", "7", "l">>
CharsetSet == Range(CHARSET)
CharsetValue == [c \in CharsetSet |-> (CHOOSE i \in DOMAIN CHARSET : CHARSET[i] = c) - 1]
SEP == "1"
BECH32_HRP == <<"l", "n", "o">>

\* Fe32::from_char: case-insensitive lookup in the data alphabet
IsFe32(c) == to_ascii_lowercase(c) \in CharsetSet
Fe32(c) == CharsetValue[to_ascii_lowercase(c)]

-----------------------------------------------------------------------------
(* str helpers *)

\* str::trim_start
trim_start(t) ==
    IF \A i \in 1..Len(t) : is_whitespace(t[i]) THEN <<>>
    ELSE LET first == CHOOSE i \in 1..Len(t) :
                          /\ ~is_whitespace(t[i])
                          /\ \A j \in 1..(i - 1) : is_whitespace(t[j])
         IN SubSeq(t, first, Len(t))

\* str::trim_end
trim_end(t) ==
    IF \A i \in 1..Len(t) : is_whitespace(t[i]) THEN <<>>
    ELSE LET last == CHOOSE i \in 1..Len(t) :
                         /\ ~is_whitespace(t[i])
                         /\ \A j \in (i + 1)..Len(t) : is_whitespace(t[j])
         IN SubSeq(t, 1, last)

\* str::trim
trim(t) == trim_end(trim_start(t))

\* s.split('+'): the chunks between the markers, in order (n markers give n + 1 chunks)
split(t, m) ==
    LET marks == {i \in 1..Len(t) : t[i] = m}
        cuts == marks \cup {0, Len(t) + 1}
        starts == cuts \ {Len(t) + 1}
        nth(k) == CHOOSE c \in starts : Cardinality({d \in starts : d < c}) = k - 1
        next(c) == CHOOSE d \in cuts : d > c /\ \A e \in cuts : e > c => d <= e
    IN [k \in 1..Cardinality(starts) |-> SubSeq(t, nth(k) + 1, next(nth(k)) - 1)]

contains_whitespace(t) == \E i \in 1..Len(t) : is_whitespace(t[i])

-----------------------------------------------------------------------------
(* from_bech32_str, lines 50-79 *)

\* mutant: the chunk test forgets the whitespace check
BadChunk_EmptyOnly(chunk) == trim_start(chunk) = <<>>

\* `chunk.is_empty() || chunk.contains(char::is_whitespace)` on the left-trimmed chunk
BadChunk(chunk) ==
    LET c == trim_start(chunk)
    IN c = <<>> \/ contains_whitespace(c)

\* mutant: the filter drops the markers only
KeepChar_MarkersOnly(c) == c # "+"

\* the filter of lines 61-64
KeepChar(c) == c # "+" /\ ~is_whitespace(c)

\* mutant: the text is filtered whether or not it holds a marker
ContinuationFold_AlwaysFilter(t) ==
    LET chunks == split(t, "+")
    IN IF Len(chunks) >= 2 /\ \E k \in 1..Len(chunks) : BadChunk(chunks[k])
       THEN Err("InvalidContinuation")
       ELSE Ok(SelectSeq(t, KeepChar))

\* lines 52-68: the value of `encoded`, or the early return of line 57
ContinuationFold(t) ==
    LET chunks == split(t, "+")
    IN IF Len(chunks) >= 2
       THEN IF \E k \in 1..Len(chunks) : BadChunk(chunks[k])
            THEN Err("InvalidContinuation")
            ELSE Ok(SelectSeq(t, KeepChar))
       ELSE Ok(t)

\* bech32 check_characters: walks the string from its end; the characters after
\* the last separator (all of them when there is none) must be in the data
\* alphabet, then the case must not be mixed, then the separator must exist
check_characters(t) ==
    LET seps == {i \in 1..Len(t) : t[i] = SEP}
        sep_pos == IF seps = {} THEN 0 ELSE CHOOSE i \in seps : \A j \in seps : j <= i
        bad == {i \in (sep_pos + 1)..Len(t) : ~IsFe32(t[i])}
        last_bad == CHOOSE i \in bad : \A j \in bad : j <= i
        has_upper == \E i \in 1..Len(t) : is_ascii_uppercase(t[i])
        has_lower == \E i \in 1..Len(t) : is_ascii_lowercase(t[i])
    IN IF bad # {} THEN Err("Bech32(Parse(Char(InvalidChar('" \o t[last_bad] \o "'))))")
       ELSE IF has_upper /\ has_lower THEN Err("Bech32(Parse(Char(MixedCase)))")
       ELSE IF seps = {} THEN Err("Bech32(Parse(Char(MissingSeparator)))")
       ELSE Ok(sep_pos)

\* bech32 Hrp::parse: 1 to 83 characters, each an ASCII byte in 33..=126
\* (on the characters of the model: every character but whitespace)
HrpParse(hrp) ==
    IF hrp = <<>> THEN Err("Bech32(Parse(Hrp(Empty)))")
    ELSE IF Len(hrp) > 83 THEN Err("Bech32(Parse(Hrp(TooLong)))")
    ELSE IF \E i \in 1..Len(hrp) : is_whitespace(hrp[i])
         THEN Err("Bech32(Parse(Hrp(InvalidAsciiByte)))")
    ELSE Ok(hrp)

\* line 70: CheckedHrpstring::new::<NoChecksum>(encoded), with the `?`
CheckedHrpstringNew(t) ==
    LET pos == check_characters(t)
    IN IF ~pos.ok THEN pos
       ELSE LET hrp == HrpParse(SubSeq(t, 1, pos.val - 1))
            IN IF ~hrp.ok THEN hrp
               ELSE Ok([hrp |-> hrp.val, data |-> SubSeq(t, pos.val + 1, Len(t))])

\* Hrp::lowercase_char_iter
lowercase_char_iter(hrp) == [i \in 1..Len(hrp) |-> to_ascii_lowercase(hrp[i])]

\* line 77: parsed.byte_iter(): the 5-bit values, most significant bit first,
\* regrouped into bytes; trailing bits that do not fill a byte are dropped
byte_iter(data) ==
    LET bit(j) == (Fe32(data[(j \div 5) + 1]) \div <<16, 8, 4, 2, 1>>[(j % 5) + 1]) % 2
        byte(k) == LET b0 == 8 * (k - 1)
                   IN 128 * bit(b0) + 64 * bit(b0 + 1) + 32 * bit(b0 + 2) + 16 * bit(b0 + 3)
                      + 8 * bit(b0 + 4) + 4 * bit(b0 + 5) + 2 * bit(b0 + 6) + bit(b0 + 7)
    IN [k \in 1..((5 * Len(data)) \div 8) |-> byte(k)]

\* mutant: the prefix is compared as written, without lower-casing
Validate_CaseSensitive(t) ==
    LET parsed == CheckedHrpstringNew(t)
    IN IF ~parsed.ok THEN parsed
       ELSE IF parsed.val.hrp # BECH32_HRP
            THEN Err("InvalidBech32Hrp")
       ELSE Ok(byte_iter(parsed.val.data))

\* mutant: the prefix is compared before the bech32 structure is checked
Validate_HrpFirst(t) ==
    LET parsed == CheckedHrpstringNew(t)
        starts == /\ Len(t) > Len(BECH32_HRP)
                  /\ lowercase_char_iter(SubSeq(t, 1, Len(BECH32_HRP))) = BECH32_HRP
                  /\ t[Len(BECH32_HRP) + 1] = SEP
    IN IF ~starts THEN Err("InvalidBech32Hrp")
       ELSE IF ~parsed.ok THEN parsed
       ELSE IF lowercase_char_iter(parsed.val.hrp) # BECH32_HRP
            THEN Err("InvalidBech32Hrp")
       ELSE Ok(byte_iter(parsed.val.data))

\* lines 70-78: everything after the fold
Validate(t) ==
    LET parsed == CheckedHrpstringNew(t)
    IN IF ~parsed.ok THEN parsed
       ELSE IF lowercase_char_iter(parsed.val.hrp) # BECH32_HRP
            THEN Err("InvalidBech32Hrp")
       ELSE Ok(byte_iter(parsed.val.data))

\* the whole function
from_bech32_str(t) ==
    LET e == ContinuationFold(t)
    IN IF ~e.ok THEN e ELSE Validate(e.val)

-----------------------------------------------------------------------------
(* The application, lines 81-173 *)

\* lines 90-92: default_input_text
DefaultText ==
    <<"l", "n", "o", "1", "p", "q", "p", "s", "7", "s", "j", "q", "p", "g", "t", "+",
      "y", "z", "m", "3", "q", "v", "4", "u", "x", "z", "m", "t", "s", "d", "3", "j",
      "j", "q", "e", "r", "9", "w", "d", "3", "h", "y", "6", "t", "s", "w", "3", "+",
      "5", "k", "7", "m", "s", "j", "z", "f", "p", "y", "7", "n", "z", "5", "y", "q",
      "c", "n", "+", "y", "g", "r", "f", "d", "e", "j", "8", "2", "u", "m", "5", "w",
      "f", "5", "k", "2", "u", "c", "k", "y", "y", "p", "w", "a", "3", "e", "y", "t",
      "4", "4", "h", "6", "t", "x", "t", "x", "q", "u", "q", "h", "7", "l", "z", "5",
      "d", "j", "g", "e", "4", "a", "f", "g", "f", "j", "n", "7", "k", "4", "r", "g",
      "r", "k", "u", "a", "g", "0", "j", "s", "d", "+", "5", "x", "v", "x", "g">>

\* Offer::try_from(bytes), the TLV parser of the lightning crate, is opaque here:
\* the payload of the default text is a well-formed offer, and the model lets no
\* other payload of its inputs parse
DefaultPayload == from_bech32_str(DefaultText).val

OfferTryFrom(bytes) ==
    IF bytes = DefaultPayload
    THEN Ok([tlv |-> bytes])
    ELSE Err("Decode(InvalidValue)")

\* line 163: Offer::from_str, which in the lightning crate is the same bech32
\* transport decoding followed by the TLV parse
OfferFromStr(t) ==
    LET data == from_bech32_str(t)
    IN IF ~data.ok THEN data ELSE OfferTryFrom(data.val)

\* mutant: a failed decode sets the error and leaves the offer as it was
decode_offer_KeepsOffer(text) ==
    LET trimmed == trim(text)
    IN IF trimmed = <<>>
       THEN [offer |-> None, error_message |-> None]
       ELSE LET r == OfferFromStr(trimmed)
            IN IF r.ok
               THEN [offer |-> Some(r.val), error_message |-> None]
               ELSE [offer |-> offer,
                     error_message |-> Some("Failed to parse offer: " \o r.err)]

\* mutant: empty input clears the offer and leaves the error as it was
decode_offer_KeepsErrorOnEmpty(text) ==
    LET trimmed == trim(text)
    IN IF trimmed = <<>>
       THEN [offer |-> None, error_message |-> error_message]
       ELSE LET r == OfferFromStr(trimmed)
            IN IF r.ok
               THEN [offer |-> Some(r.val), error_message |-> None]
               ELSE [offer |-> None,
                     error_message |-> Some("Failed to parse offer: " \o r.err)]

\* mutant: the emptiness test and the decoder see the untrimmed text
decode_offer_NoTrim(text) ==
    IF text = <<>>
    THEN [offer |-> None, error_message |-> None]
    ELSE LET r == OfferFromStr(text)
         IN IF r.ok
            THEN [offer |-> Some(r.val), error_message |-> None]
            ELSE [offer |-> None,
                  error_message |-> Some("Failed to parse offer: " \o r.err)]

\* lines 154-173: decode_offer, as the new values of (offer, error_message)
decode_offer(text) ==
    LET trimmed == trim(text)
    IN IF trimmed = <<>>
       THEN [offer |-> None, error_message |-> None]
       ELSE LET r == OfferFromStr(trimmed)
            IN IF r.ok
               THEN [offer |-> Some(r.val), error_message |-> None]
               ELSE [offer |-> None,
                     error_message |-> Some("Failed to parse offer: " \o r.err)]

HexDigits == <<"0", "1", "2", "3", "4", "5", "6", "7", "8", "9", "a", "b", "c", "d", "e", "f">>

\* format!("{:02x}", d)
Hex02(b) == HexDigits[(b \div 16) + 1] \o HexDigits[(b % 16) + 1]

RECURSIVE JoinHex(_)
\* lines 126-130: the hex rendering of the data part
JoinHex(bytes) ==
    IF bytes = <<>> THEN "" ELSE Hex02(Head(bytes)) \o JoinHex(Tail(bytes))

\* nothing drawn yet in this redraw
BlankFrame ==
    [decoder_input |-> None, validator_input |-> None, validator |-> None,
     data_part |-> None, offer |-> None, errors |-> {}]

\* mutant: a validator failure is drawn as an error text too
Rendered_ShowsValidatorError(decoder_input) ==
    LET v == from_bech32_str(input_text)
    IN [decoder_input |-> decoder_input,
        validator_input |-> Some(input_text),
        validator |-> Some(v),
        data_part |-> IF v.ok THEN Some("data part: " \o JoinHex(v.val)) ELSE None,
        offer |-> offer,
        errors |-> (IF error_message.some THEN {"Error: " \o error_message.val} ELSE {})
                   \cup (IF v.ok THEN {} ELSE {"Error: " \o v.err})]

\* lines 124-145: what one redraw draws below the text field
Rendered(decoder_input) ==
    LET v == from_bech32_str(input_text)
    IN [decoder_input |-> decoder_input,
        validator_input |-> Some(input_text),
        validator |-> Some(v),
        data_part |-> IF v.ok THEN Some("data part: " \o JoinHex(v.val)) ELSE None,
        offer |-> offer,
        errors |-> IF error_message.some THEN {"Error: " \o error_message.val} ELSE {}]

\* keys the user types one at a time
TypedChars == {"+", " ", "l", "1", "q"}

\* texts the user pastes over the whole field
Pasted ==
    { DefaultText,
      DefaultText \o <<" ">>,
      <<>>,
      <<" ", " ">>,
      <<"l", "n", "o", "1", "+", " ">>,
      <<"x", "y", "z", "1", "q", "q", "q", "s", "l", "l", "h", "f", "y", "z">>,
      <<"L", "N", "O", "1", "Q", "Q">> }

\* Default for Bolt12OfferDecoderApp, lines 88-100
AppInit ==
    /\ input_text = DefaultText
    /\ offer = None
    /\ error_message = None
    /\ pc = "update"
    /\ frame = BlankFrame

\* line 104: update() starts by calling decode_offer on the text as it stands
DecodeOffer ==
    /\ pc = "update"
    /\ LET d == decode_offer(input_text)
       IN /\ offer' = d.offer
          /\ error_message' = d.error_message
    /\ frame' = [BlankFrame EXCEPT !.decoder_input = Some(input_text)]
    /\ pc' = "text_field"
    /\ UNCHANGED <<input_text, fnVars>>

\* line 121: the text field, no input event in this frame
TextFieldIdle ==
    /\ pc = "text_field"
    /\ pc' = "render"
    /\ UNCHANGED <<input_text, offer, error_message, frame, fnVars>>

\* line 121: the text field appends a typed character
TextFieldType(c) ==
    /\ pc = "text_field"
    /\ Len(input_text) < MaxTyped
    /\ input_text' = Append(input_text, c)
    /\ pc' = "render"
    /\ UNCHANGED <<offer, error_message, frame, fnVars>>

\* line 121: the text field deletes the last character (followed key by key
\* on short texts only; longer texts change by paste)
TextFieldBackspace ==
    /\ pc = "text_field"
    /\ input_text # <<>>
    /\ Len(input_text) <= MaxTyped
    /\ input_text' = SubSeq(input_text, 1, Len(input_text) - 1)
    /\ pc' = "render"
    /\ UNCHANGED <<offer, error_message, frame, fnVars>>

\* line 121: the text field replaces its content by a pasted text
TextFieldPaste(p) ==
    /\ pc = "text_field"
    /\ p # input_text
    /\ input_text' = p
    /\ pc' = "render"
    /\ UNCHANGED <<offer, error_message, frame, fnVars>>

\* lines 124-145: validate the text and draw data part, offer and error
Render ==
    /\ pc = "render"
    /\ frame' = Rendered(frame.decoder_input)
    /\ pc' = "update"
    /\ UNCHANGED <<input_text, offer, error_message, fnVars>>

-----------------------------------------------------------------------------
(* One call of from_bech32_str *)

FnChars == {"+", " ", "l", "n", "o", "1", "L"}

FnSamples ==
    { DefaultText,
      <<"x", "y", "z", "1", "q", "q", "q", "s", "l", "l", "h", "f", "y", "z">>,
      <<"l", "n", "o", "1", "+", " ">>,
      <<"L", "N", "O", "1", "Q", "Q">>,
      <<"L", "N", "O", "1">>,
      <<"L", "N", "O", "1", "+", "Q", "Q", "Q", "Q">>,
      <<"L", "N", "O", "1", "q", "q">>,
      <<"L", "N", "1", "Q", "Q">>,
      <<"l", "n", "o", "1", "p", "q", "+", "\n", " ", "p", "s">>,
      <<"l", "n", "o", "1", "p", "q", "+", "p", "s", "\n">> }

Inputs == UNION {[1..n -> FnChars] : n \in 0..MaxLen} \cup FnSamples

FnIdle ==
    /\ s = <<>>
    /\ fpc = "idle"
    /\ encoded = None
    /\ ret = None

\* lines 52-68
FoldStep ==
    /\ fpc = "fold"
    /\ LET e == ContinuationFold(s)
       IN IF e.ok
          THEN /\ encoded' = Some(e.val)
               /\ ret' = None
               /\ fpc' = "validate"
          ELSE /\ encoded' = None
               /\ ret' = Some(e)
               /\ fpc' = "done"
    /\ UNCHANGED <<s, appVars>>

\* lines 70-78
ValidateStep ==
    /\ fpc = "validate"
    /\ ret' = Some(Validate(encoded.val))
    /\ fpc' = "done"
    /\ UNCHANGED <<s, encoded, appVars>>

-----------------------------------------------------------------------------
(* Specifications *)

Init == AppInit /\ FnIdle

Next ==
    \/ DecodeOffer
    \/ TextFieldIdle
    \/ \E c \in TypedChars : TextFieldType(c)
    \/ TextFieldBackspace
    \/ \E p \in Pasted : TextFieldPaste(p)
    \/ Render

Spec == Init /\ [][Next]_vars

FnInit ==
    /\ AppInit
    /\ s \in Inputs
    /\ fpc = "fold"
    /\ encoded = None
    /\ ret = None

FnNext == FoldStep \/ ValidateStep

FnSpec == FnInit /\ [][FnNext]_vars

-----------------------------------------------------------------------------
(* Vocabulary of the properties, stated on positions of the text *)

HasMarker(t) == \E i \in 1..Len(t) : t[i] = "+"
AllWhitespace(t) == \A i \in 1..Len(t) : t[i] \in {" ", "\t", "\n"}

\* a..b is a maximal marker-free stretch of t (possibly empty: b = a - 1)
IsChunk(t, a, b) ==
    /\ a \in 1..(Len(t) + 1)
    /\ b \in (a - 1)..Len(t)
    /\ (a = 1 \/ t[a - 1] = "+")
    /\ (b = Len(t) \/ t[b + 1] = "+")
    /\ \A i \in a..b : t[i] # "+"

\* the stretch has a visible character and no whitespace after its first visible one
GoodChunk(t, a, b) ==
    /\ \E i \in a..b : ~AllWhitespace(<<t[i]>>)
    /\ \A i, j \in a..b : (i < j /\ ~AllWhitespace(<<t[i]>>)) => ~AllWhitespace(<<t[j]>>)

AllChunksGood(t) ==
    \A a \in 1..(Len(t) + 1) : \A b \in (a - 1)..Len(t) :
        IsChunk(t, a, b) => GoodChunk(t, a, b)

\* t without its markers and whitespace, the rest in order
Stripped(t) ==
    LET kept == {i \in 1..Len(t) : t[i] # "+" /\ ~AllWhitespace(<<t[i]>>)}
        nth(k) == CHOOSE i \in kept : Cardinality({j \in kept : j < i}) = k - 1
    IN [k \in 1..Cardinality(kept) |-> t[nth(k)]]

Bech32Letters == {"q", "p", "z", "r", "y", "9", "x", "8", "g", "f", "2", "t", "v", "d", "w", "0",
                  "s", "3", "j", "n", "5", "4", "k", "h", "c", "e", "6", "m", "u", "a", "7", "l",
                  "Q", "P", "Z", "R", "Y", "X", "G", "F", "T", "V", "D", "W",
                  "S", "J", "N", "K", "H", "C", "E", "M", "U", "A", "L"}
SomeUpper(t) == \E i \in 1..Len(t) : t[i] \in Range(UpperLetters)
SomeLower(t) == \E i \in 1..Len(t) : t[i] \in Range(LowerLetters)

\* position of the last separator of t, 0 when there is none
LastSep(t) ==
    IF \E i \in 1..Len(t) : t[i] = "1"
    THEN CHOOSE i \in 1..Len(t) : t[i] = "1" /\ \A j \in (i + 1)..Len(t) : t[j] # "1"
    ELSE 0

\* t is a structurally valid checksum-free bech32 string: a non-empty printable
\* prefix, a separator, data in the alphabet, one case throughout
StructurallyValid(t) ==
    /\ LastSep(t) > 1
    /\ LastSep(t) - 1 <= 83
    /\ \A i \in 1..(LastSep(t) - 1) : ~AllWhitespace(<<t[i]>>)
    /\ \A i \in (LastSep(t) + 1)..Len(t) : t[i] \in Bech32Letters
    /\ ~(SomeUpper(t) /\ SomeLower(t))

\* the prefix of t reads "lno" in either case
PrefixIsLno(t) ==
    /\ LastSep(t) = 4
    /\ t[1] \in {"l", "L"}
    /\ t[2] \in {"n", "N"}
    /\ t[3] \in {"o", "O"}

Returned(r) == fpc = "done" /\ ret = Some(r)
Folded == fpc # "fold"

-----------------------------------------------------------------------------
(* Properties of from_bech32_str, under FnSpec *)

\* C2: an input without '+' passes the fold unchanged, whitespace included: the
\* string handed to the bech32 decoder is the input itself.
C2_NoMarkerUnchanged ==
    (Folded /\ ~HasMarker(s)) => encoded = Some(s)

C2_Witness ==
    /\ Folded
    /\ ~HasMarker(s)
    /\ \E i \in 1..Len(s) : s[i] = " "
    /\ \E i \in 1..Len(s) : s[i] # " "
    /\ encoded = Some(s)

\* C3: an input with a '+' whose chunks are all non-empty and whitespace-free after
\* left-trim folds successfully, to the input without its '+' and whitespace, the
\* other characters in their order.
C3_FoldStrips ==
    (Folded /\ HasMarker(s) /\ AllChunksGood(s))
        => (encoded.some /\ encoded.val = Stripped(s))

C3_Witness ==
    /\ Folded
    /\ HasMarker(s)
    /\ AllChunksGood(s)
    /\ \E i \in 1..Len(s) : s[i] \in {" ", "\n"}
    /\ encoded.some
    /\ Len(encoded.val) >= 2
    /\ Len(encoded.val) < Len(s) - 1

\* C4: an input with a '+' and a chunk that is empty after left-trim, or holds
\* whitespace after left-trim, fails with InvalidContinuation and no payload.
C4_BadChunkFails ==
    (fpc = "done" /\ HasMarker(s) /\ ~AllChunksGood(s))
        => (ret = Some(Err("InvalidContinuation")) /\ encoded = None)

C4_Witness ==
    /\ s = <<"l", "n", "o", "1", "+", " ">>
    /\ Returned(Err("InvalidContinuation"))

\* C5: on a structurally valid folded candidate the result is InvalidBech32Hrp
\* exactly when the prefix, lower-cased, is not "lno"; otherwise (also for "LNO")
\* the decoded bytes are returned, one byte for every 8 whole bits of 5-bit data.
C5_HrpChecked ==
    (fpc = "done" /\ encoded.some /\ StructurallyValid(encoded.val))
        => /\ (ret = Some(Err("InvalidBech32Hrp"))) <=> ~PrefixIsLno(encoded.val)
           /\ PrefixIsLno(encoded.val)
                => /\ ret.val.ok
                   /\ Len(ret.val.val) = (5 * (Len(encoded.val) - 4)) \div 8
           /\ encoded.val = <<"L", "N", "O", "1", "Q", "Q">> => ret.val = Ok(<<0>>)

C5_Witness ==
    /\ fpc = "done"
    /\ encoded.some
    /\ StructurallyValid(encoded.val)
    /\ SomeUpper(encoded.val)
    /\ PrefixIsLno(encoded.val)
    /\ ret.val.ok
    /\ Len(ret.val.val) > 0

\* C10: the errors have a fixed precedence: a bad continuation is reported without
\* any bech32 decoding, whatever the prefix and the structure of the rest; a
\* structural bech32 error is reported before the prefix is looked at; and
\* InvalidBech32Hrp comes only from a text that folded and is structurally valid.
C10_ErrorPrecedence ==
    fpc = "done" =>
        /\ (HasMarker(s) /\ ~AllChunksGood(s)) => Returned(Err("InvalidContinuation"))
        /\ Returned(Err("InvalidContinuation")) => encoded = None
        /\ (encoded.some /\ ~StructurallyValid(encoded.val))
              => /\ ~ret.val.ok
                 /\ ret.val.err \notin {"InvalidContinuation", "InvalidBech32Hrp"}
        /\ Returned(Err("InvalidBech32Hrp"))
              => (encoded.some /\ StructurallyValid(encoded.val))

C10_Witness ==
    /\ fpc = "done"
    /\ encoded.some
    /\ HasMarker(s)
    /\ ~StructurallyValid(encoded.val)
    /\ ~PrefixIsLno(encoded.val)
    /\ ~ret.val.ok
    /\ ret.val.err = "Bech32(Parse(Char(MixedCase)))"

-----------------------------------------------------------------------------
(* Properties of the application, under Spec *)

\* a redraw has just completed
FrameDone == pc = "update" /\ frame.validator_input.some
\* ... and the text field saw no edit in it
QuietFrame == FrameDone /\ frame.decoder_input = frame.validator_input

\* C1: the app never holds a decoded offer and an error message together.
C1_OfferXorError == ~(offer.some /\ error_message.some)

C1_Witness ==
    /\ pc = "text_field"
    /\ frame.decoder_input.some
    /\ error_message.some
    /\ ~offer.some

\* C6 as stated: on empty or whitespace-only input decode_offer leaves no offer and
\* no error, and from_bech32_str yields no error and no payload.
C6_Original ==
    (QuietFrame /\ AllWhitespace(input_text))
        => /\ offer = None
           /\ error_message = None
           /\ ~(frame.validator.some /\ ~frame.validator.val.ok)
           /\ frame.data_part = None

\* C6 amended: on empty or whitespace-only input decode_offer leaves no offer and no
\* error; from_bech32_str returns no payload but does return an error, a bech32
\* decode error (MissingSeparator for the empty text, InvalidChar for whitespace),
\* which the redraw discards: no data part is drawn.
C6_NeutralOnBlank ==
    /\ (frame.decoder_input.some /\ AllWhitespace(frame.decoder_input.val))
          => (offer = None /\ error_message = None)
    /\ (frame.validator_input.some /\ AllWhitespace(frame.validator_input.val))
          => LET t == frame.validator_input.val
             IN /\ frame.validator.val =
                      IF t = <<>>
                      THEN Err("Bech32(Parse(Char(MissingSeparator)))")
                      ELSE Err("Bech32(Parse(Char(InvalidChar('" \o t[Len(t)] \o "'))))")
                /\ frame.data_part = None

C6_Witness ==
    /\ QuietFrame
    /\ input_text = <<" ", " ">>
    /\ offer = None
    /\ error_message = None
    /\ ~frame.validator.val.ok

\* C7: in every redraw the validator and the decoder run on the same text, also in
\* a redraw in which the text field is edited.
C7_SameInput ==
    FrameDone => frame.decoder_input = frame.validator_input

\* C8 as stated: whenever the validator fails in a redraw, the failure is shown to
\* the user in that frame (here: on a non-blank text, in a redraw without an edit,
\* at least some error text is on screen).
C8_Original ==
    (QuietFrame /\ ~AllWhitespace(input_text) /\ ~frame.validator.val.ok)
        => frame.errors # {}

\* C8 amended: only the decoder's failure is shown as text: the errors on screen are
\* exactly error_message, and a validator failure is discarded, its only trace the
\* missing data part.
C8_OnlyDecoderErrorShown ==
    FrameDone =>
        /\ frame.errors = IF error_message.some
                          THEN {"Error: " \o error_message.val} ELSE {}
        /\ ~frame.validator.val.ok => frame.data_part = None

C8_Witness ==
    /\ QuietFrame
    /\ frame.validator.val = Err("InvalidContinuation")
    /\ frame.offer.some
    /\ frame.data_part = None
    /\ frame.errors = {}

\* C9: the (offer, error_message) pair is a function of the text decode_offer last
\* read: both cleared on blank text, the offer replaced and the error cleared on
\* success, the offer cleared and the error set on failure.
C9_PairFromLatestInput ==
    frame.decoder_input.some =>
        LET t == frame.decoder_input.val
            first == CHOOSE i \in 1..Len(t) : ~AllWhitespace(SubSeq(t, 1, i))
            last == CHOOSE i \in 1..Len(t) : ~AllWhitespace(<<t[i]>>)
                                             /\ AllWhitespace(SubSeq(t, i + 1, Len(t)))
            r == OfferFromStr(SubSeq(t, first, last))
        IN IF AllWhitespace(t) THEN offer = None /\ error_message = None
           ELSE IF r.ok THEN offer = Some(r.val) /\ error_message = None
           ELSE offer = None /\ error_message = Some("Failed to parse offer: " \o r.err)

C9_Witness ==
    /\ pc = "update"
    /\ frame.decoder_input = Some(DefaultText \o <<" ">>)
    /\ offer.some
    /\ error_message = None

====
